---- MODULE Spec2Model ----
(***************************************************************************)
(* Model of the legal translation demo: the document workflow of           *)
(* src/streamlit_gemini.py (upload, extract, translate, export) and the     *)
(* API client application of src/streamlit.py (health check, text and file  *)
(* translation, editable API URL).                                          *)
(*                                                                          *)
(* A Streamlit script is re-executed from its first line on every user      *)
(* interaction; only the widget values and st.session_state survive.  One   *)
(* action of the model is one interaction followed by the script run it     *)
(* triggers.  A second session of the same deployment is kept in peer;     *)
(* SwitchSession lets the two sessions take turns.                          *)
(*                                                                          *)
(* A Python string is a sequence of pieces; a piece is a single character   *)
(* ("a", " ", "\n") or a literal chunk of the source (a message).  The      *)
(* Hindi literals are written transliterated, prefixed "hi:".               *)
(***************************************************************************)
EXTENDS Integers, Sequences, FiniteSets, TLC

(* ------------------------------ bounds --------------------------------- *)
\* the documents of the workflow: longest .txt content in bytes, most pages of
\* a PDF, most paragraphs of a DOCX
MaxBytes == 1
MaxPages == 1
MaxParas == 1
\* the documents the extractor alone is run on
ExtractMaxBytes == 3
ExtractMaxPages == 2
ExtractMaxParas == 2
\* longest text typed into the text area of streamlit.py
MaxInput == 1
\* longest translation exported as DOCX
MaxText == 4

(* ------------------------------- state --------------------------------- *)
\* one session of streamlit_gemini.py
VARIABLES
    uploaded_file,     \* the file uploader's value (NoFile: None)
    session_state,     \* st.session_state
    translated_from,   \* history: the extracted text translated_text was made from
    gem_run            \* what the last run of the script did and rendered

gemVars == <<uploaded_file, session_state, translated_from, gem_run>>

\* one session of streamlit.py
VARIABLES
    API_URL,            \* the module global, as the last run of the process left it
    api_url_input,      \* the "API URL" text field
    input_text,         \* the text area of the Text Input tab
    app_uploaded_file,  \* the uploader of the File Upload tab (NoAppFile: None)
    applied_url,        \* history: the URL last applied by "Update API URL" ("": none)
    app_run             \* what the last run of the script did and rendered

appVars == <<API_URL, api_url_input, input_text, app_uploaded_file, applied_url, app_run>>

\* the script this deployment runs (streamlit run <script>)
VARIABLE script

GEMINI == "streamlit_gemini.py"
STREAMLIT == "streamlit.py"

\* a second session of the same deployment (another browser tab): the widget
\* values, st.session_state and last run of the session that is not acting
VARIABLE peer

vars == <<script, gemVars, appVars, peer>>

(* ------------------------------ strings -------------------------------- *)
\* str.isspace() of a one-character piece (the ASCII white space the model uses)
IsSpace(c) == c \in {" ", "\n", "\t", "\r"}

RECURSIVE LStrip(_)
LStrip(s) == IF s # <<>> /\ IsSpace(Head(s)) THEN LStrip(Tail(s)) ELSE s

RECURSIVE RStrip(_)
RStrip(s) ==
    IF s # <<>> /\ IsSpace(s[Len(s)]) THEN RStrip(SubSeq(s, 1, Len(s) - 1)) ELSE s

\* str.strip(): leading and trailing white space removed
Strip(s) == RStrip(LStrip(s))

\* chr() on the code points the model's byte alphabet can produce
Chr(cp) ==
    CASE cp = 97 -> "a"
      [] cp = 32 -> " "
      [] cp = 10 -> "\n"
      [] OTHER   -> ToString(cp)

(* bytes.decode('utf-8'), strict: [ok, text].  One- to four-byte forms with  *)
(* the range checks of the encoding (no overlong forms, no surrogates).     *)
IsCont(b) == b >= 128 /\ b <= 191

RECURSIVE Utf8Decode(_)
Utf8Decode(bs) ==
    IF bs = <<>> THEN [ok |-> TRUE, text |-> <<>>]
    ELSE LET b == bs[1]
             n == Len(bs)
             width == IF b < 128 THEN 1
                      ELSE IF b >= 194 /\ b <= 223 THEN 2
                      ELSE IF b >= 224 /\ b <= 239 THEN 3
                      ELSE IF b >= 240 /\ b <= 244 THEN 4
                      ELSE 0
             wellFormed ==
                 /\ width > 0
                 /\ n >= width
                 /\ \A i \in 2..width : IsCont(bs[i])
                 /\ (b = 224 => bs[2] >= 160)
                 /\ (b = 237 => bs[2] <= 159)
                 /\ (b = 240 => bs[2] >= 144)
                 /\ (b = 244 => bs[2] <= 143)
             cp == CASE width = 1 -> b
                     [] width = 2 -> (b - 192) * 64 + (bs[2] - 128)
                     [] width = 3 -> (b - 224) * 4096 + (bs[2] - 128) * 64
                                        + (bs[3] - 128)
                     [] OTHER     -> (b - 240) * 262144 + (bs[2] - 128) * 4096
                                        + (bs[3] - 128) * 64 + (bs[4] - 128)
         IN  IF ~wellFormed THEN [ok |-> FALSE, text |-> <<>>]
             ELSE LET rest == Utf8Decode(SubSeq(bs, width + 1, n))
                  IN  IF rest.ok
                      THEN [ok |-> TRUE, text |-> <<Chr(cp)>> \o rest.text]
                      ELSE rest

\* sequences over S of length at most n
SeqsUpTo(S, n) == UNION {[1..k -> S] : k \in 0..n}

(* ----------------------------- documents ------------------------------- *)
\* byte values an uploaded .txt file is made of: 'a', ' ', 0xC3, 0xA9
\* (0xC3 0xA9 is U+00E9; either byte alone is not valid UTF-8)
ByteAlphabet == {97, 32, 195, 169}

NoText == <<>>

\* what a reader does on one page: yields text, yields None, or raises
PageText(t) == [kind |-> "text", text |-> t]
PageNone == [kind |-> "none", text |-> NoText]
PageRaise == [kind |-> "raise", text |-> NoText]

\* fitz: page.get_text() gives a string
FitzTexts == {PageText(<<"a">>)}
\* PyPDF2: extract_text() gives a string or None
PyPdfTexts == {PageText(<<"b">>), PageNone}

\* a reader on a document: opening raises, or it reports a list of pages
ReaderFails == [opens |-> FALSE, pages |-> <<>>]
Reader(ps) == [opens |-> TRUE, pages |-> ps]

NoReader == ReaderFails

Doc(stem, ext, bytes, fitz, pypdf, paras) ==
    [name |-> <<stem, ext>>, bytes |-> bytes, fitz |-> fitz, pypdf |-> pypdf,
     paras |-> paras]

TxtDocs(n) == {Doc("t", ".txt", b, NoReader, NoReader, <<>>) :
                  b \in SeqsUpTo(ByteAlphabet, n)}

\* what a reader can do on a document of n pages: fail to open it, read all n
\* pages, or raise on page k+1 after reading k < n pages (the pages behind a
\* raising page are never read, so the outcome ends with it)
ReaderOutcomes(T, n) ==
    {ReaderFails}
      \cup {Reader(ps) : ps \in [1..n -> T]}
      \cup {Reader(Append(ps, PageRaise)) : ps \in UNION {[1..k -> T] : k \in 0..(n - 1)}}

\* whether the primary reader gets through the document
FitzReadsAll(f) == f.opens /\ \A i \in 1..Len(f.pages) : f.pages[i].kind = "text"

\* the PDFs of at most m pages, each reader with any of its outcomes
AllPdfDocs(m) ==
    UNION {{Doc("p", ".pdf", <<>>, f, p, <<>>) :
               f \in ReaderOutcomes(FitzTexts, n),
               p \in ReaderOutcomes(PyPdfTexts, n)} : n \in 0..m}

\* the fallback reader's outcome is listed only where the primary reader fails,
\* the only place it is run
PdfDocs(m) == {d \in AllPdfDocs(m) : FitzReadsAll(d.fitz) => d.pypdf = NoReader}

DocxDocs(n) == {Doc("d", ".docx", <<>>, NoReader, NoReader, ps) :
                   ps \in SeqsUpTo({<<>>, <<"a">>}, n)}

\* the documents uploaded in the workflow, and those the extractor alone is run on
Documents == TxtDocs(MaxBytes) \cup PdfDocs(MaxPages) \cup DocxDocs(MaxParas)
ExtractDocuments ==
    TxtDocs(ExtractMaxBytes) \cup PdfDocs(ExtractMaxPages) \cup DocxDocs(ExtractMaxParas)

\* Path(name).suffix.lower() and Path(name).stem of a name <<stem, suffix>>
Suffix(name) == name[2]
Stem(name) == name[1]

(* ----------------------------- extraction ------------------------------ *)
\* the for loop over a reader's pages, text += ..., stopping where a page raises;
\* a None page counts as "" when noneAsEmpty (the "or ''" of the fallback loop)
RECURSIVE ReadPages(_, _, _)
ReadPages(pages, text, noneAsEmpty) ==
    IF pages = <<>> THEN [raised |-> FALSE, text |-> text]
    ELSE LET p == Head(pages)
         IN  IF p.kind = "raise" \/ (p.kind = "none" /\ ~noneAsEmpty)
             THEN [raised |-> TRUE, text |-> text]
             ELSE ReadPages(Tail(pages), text \o p.text, noneAsEmpty)

\* extract_text_from_pdf: [raised, text, fallbacks]; fallbacks counts the runs of
\* the PyPDF2 path
extract_text_from_pdf(file) ==
    LET primary == IF file.fitz.opens
                   THEN ReadPages(file.fitz.pages, <<>>, FALSE)
                   ELSE [raised |-> TRUE, text |-> <<>>]
    IN  IF ~primary.raised
        THEN [raised |-> FALSE, text |-> primary.text, fallbacks |-> 0]
        ELSE \* except: file.seek(0); text keeps what the primary loop appended
             IF ~file.pypdf.opens
             THEN [raised |-> TRUE, text |-> primary.text, fallbacks |-> 1]
             ELSE LET fb == ReadPages(file.pypdf.pages, primary.text, TRUE)
                  IN  [raised |-> fb.raised, text |-> fb.text, fallbacks |-> 1]

\* " ".join(...)
RECURSIVE JoinSpace(_)
JoinSpace(ps) ==
    IF ps = <<>> THEN <<>>
    ELSE IF Len(ps) = 1 THEN ps[1]
    ELSE ps[1] \o <<" ">> \o JoinSpace(Tail(ps))

extract_text_from_docx(file) == JoinSpace(file.paras)

\* the extraction dispatch of main: [raised, text, fallbacks]
Extract(file) ==
    LET ext == Suffix(file.name)
    IN  CASE ext = ".pdf"  -> extract_text_from_pdf(file)
          [] ext = ".txt"  -> LET d == Utf8Decode(file.bytes)
                              IN  [raised |-> ~d.ok, text |-> d.text, fallbacks |-> 0]
          [] ext = ".docx" -> [raised |-> FALSE, text |-> extract_text_from_docx(file),
                               fallbacks |-> 0]
          [] OTHER         -> [raised |-> FALSE, text |-> <<>>, fallbacks |-> 0]

(* -------------------------------- HTTP ---------------------------------- *)
\* translations and error details the remote server may send
ServerTranslations == {<<"h">>, <<"h", "\n", "\n", "i">>}
Details == {"overloaded", "busy"}

\* a response body: not JSON, a JSON value that is no object, or a JSON object
\* with some of the keys the client reads
Body(json, keys, translation, detail) ==
    [json |-> json, keys |-> keys, translation |-> translation, detail |-> detail]

NotJson == Body("notjson", {}, <<>>, "")
JsonList == Body("list", {}, <<>>, "")

\* the key sets of the JSON objects answered: a full answer, an answer with one
\* of the keys the client reads missing, an error detail, an empty object
KeySets ==
    {{"translation", "model_info", "original_text"},
     {"model_info", "original_text"},
     {"translation", "original_text"},
     {"translation", "model_info"},
     {"detail"},
     {}}

JsonObjects ==
    {Body("dict", ks,
          IF "translation" \in ks THEN t ELSE <<>>,
          IF "detail" \in ks THEN d ELSE "") :
        ks \in KeySets, t \in ServerTranslations, d \in Details}

Bodies == {NotJson, JsonList} \cup JsonObjects

\* the status codes the model answers with: 200 and one that is not 200
StatusCodes == {200, 500}

\* the exceptions requests.post / requests.get raise
ExceptionClasses == {"ConnectionError", "ConnectTimeout", "ReadTimeout", "OtherError"}

\* how an HTTP call ends: it raises, or a response arrives
Raises(cls) == [kind |-> "exception", exc |-> cls, status |-> 0, body |-> NotJson]
Response(status, body) == [kind |-> "response", exc |-> "", status |-> status, body |-> body]

HttpOutcomes ==
    {Raises(c) : c \in ExceptionClasses}
      \cup {Response(st, b) : st \in StatusCodes, b \in Bodies}

\* the classes an exception is an instance of: in requests.exceptions,
\* ConnectTimeout(ConnectionError, Timeout) and ReadTimeout(Timeout)
Bases(cls) ==
    CASE cls = "ConnectionError" -> {"ConnectionError", "RequestException", "Exception"}
      [] cls = "ConnectTimeout"  -> {"ConnectTimeout", "ConnectionError", "Timeout",
                                     "RequestException", "Exception"}
      [] cls = "ReadTimeout"     -> {"ReadTimeout", "Timeout", "RequestException",
                                     "Exception"}
      [] OTHER                   -> {cls, "Exception"}

IsInstance(cls, base) == base \in Bases(cls)

\* str(e) of an exception, as one piece
ExcStr(cls) == "str(" \o cls \o ")"

\* response.json(): raises on a body that is not JSON
JsonRaises(body) == body.json = "notjson"

\* response.text, as one piece
ResponseText(body) ==
    CASE body.json = "notjson" -> "<html>"
      [] body.json = "list"    -> "[]"
      [] OTHER                 -> IF "detail" \in body.keys
                                  THEN "{detail:" \o body.detail \o "}"
                                  ELSE "{}"

\* a request as the server sees it
Request(method, base, path, text, file, timeout) ==
    [method |-> method, base |-> base, path |-> path, text |-> text,
     file |-> file, timeout |-> timeout]

\* a button that stays pressed in the runs that follow its click
st_button_held(pressed, label) == TRUE

\* st.button(label): True in the one run its click starts, False in every other
\* run; pressed is the button whose click started the run ("" for none)
st_button(pressed, label) == pressed = label

\* the timeout argument of a request: <<>> for none given, <<seconds>> otherwise
NoTimeout == <<>>
NoInputFile == <<"", "">>

(* ------------------- streamlit_gemini.py: the functions ------------------ *)
TRANSLATION_API_BASE == "https://d89e-2401-4900-8843-57cc-cdb6-af8-25c0-bb20.ngrok-free.app"

MsgNoText == <<"No text content found to translate.">>
MsgNotFound == <<"Translation not found in response">>

\* translate_text(text) when the POST ends as net: [value, requests]
translate_text(text, net) ==
    IF Strip(text) = <<>>
    THEN [value |-> MsgNoText, requests |-> <<>>]
    ELSE LET req == Request("POST", TRANSLATION_API_BASE, "/translate", text,
                            NoInputFile, NoTimeout)
             value ==
                 IF net.kind = "exception"
                 THEN <<"Translation API error: ", ExcStr(net.exc)>>
                 ELSE IF net.status = 200
                 THEN IF JsonRaises(net.body)
                      THEN <<"Translation API error: ", ExcStr("JSONDecodeError")>>
                      ELSE IF net.body.json # "dict"
                      THEN <<"Translation API error: ", ExcStr("AttributeError")>>
                      ELSE IF "translation" \in net.body.keys
                      THEN net.body.translation
                      ELSE MsgNotFound
                 ELSE <<"Error: ", ToString(net.status), " - ", ResponseText(net.body)>>
         IN  [value |-> value, requests |-> <<req>>]

\* str.split('\n\n')
RECURSIVE SplitBlank(_)
SplitBlank(s) ==
    LET hits == {i \in 1..(Len(s) - 1) : s[i] = "\n" /\ s[i + 1] = "\n"}
    IN  IF hits = {} THEN <<s>>
        ELSE LET i == CHOOSE j \in hits : \A k \in hits : j <= k
             IN  <<SubSeq(s, 1, i - 1)>> \o SplitBlank(SubSeq(s, i + 2, Len(s)))

\* the whole text written as one paragraph
save_as_docx_whole(text) == <<text>>

\* save_as_docx(text): the paragraphs of the document written
save_as_docx(text) == SplitBlank(text)

(* -------------------- streamlit_gemini.py: the script -------------------- *)
NoFile == Doc("", "", <<>>, NoReader, NoReader, <<>>)

NoDownload == [kind |-> "none", name |-> <<"", "">>, paragraphs |-> <<>>, text |-> <<>>]

EmptySession ==
    [keys |-> {}, translated_text |-> <<>>, file_name |-> <<"", "">>,
     file_extension |-> ""]

\* what one run of the script did and rendered
IdleRun ==
    [has_file |-> FALSE, crashed |-> FALSE, extracted_text |-> <<>>, fallbacks |-> 0,
     pressed |-> "", translate_button |-> FALSE, shows_translation |-> FALSE, requests |-> <<>>,
     download |-> NoDownload]

(* main(): one run of the script on the uploader's file, the session state,   *)
(* the button pressed ("", "translate", "docx", "txt") and the way a POST     *)
(* ends.  source is the history of which extracted text translated_text was   *)
(* made from.  Gives [session_state, source, run].                            *)
GeminiMain(file, ss, source, pressed, net) ==
    IF file = NoFile
    THEN [session_state |-> ss, source |-> source, run |-> IdleRun]
    ELSE
    LET ex == Extract(file)
    IN  IF ex.raised
        THEN \* the exception leaves main: the run ends here
             [session_state |-> ss, source |-> source,
              run |-> [IdleRun EXCEPT !.has_file = TRUE, !.crashed = TRUE,
                                      !.fallbacks = ex.fallbacks]]
        ELSE
        LET tr == translate_text(ex.text, net)
            ss1 == IF st_button(pressed, "translate")
                   THEN [keys |-> {"translated_text", "file_name", "file_extension"},
                         translated_text |-> tr.value,
                         file_name |-> file.name,
                         file_extension |-> Suffix(file.name)]
                   ELSE ss
            source1 == IF st_button(pressed, "translate") THEN ex.text ELSE source
            shown == "translated_text" \in ss1.keys
            base_name == Stem(ss1.file_name)
            download ==
                IF ~shown THEN NoDownload
                ELSE IF st_button(pressed, "docx")
                THEN [kind |-> "docx", name |-> <<base_name, "_hindi.docx">>,
                      paragraphs |-> save_as_docx(ss1.translated_text), text |-> <<>>]
                ELSE IF st_button(pressed, "txt")
                THEN [kind |-> "txt", name |-> <<base_name, "_hindi.txt">>,
                      paragraphs |-> <<>>, text |-> ss1.translated_text]
                ELSE NoDownload
        IN  [session_state |-> ss1, source |-> source1,
             run |-> [has_file |-> TRUE, crashed |-> FALSE,
                      extracted_text |-> ex.text, fallbacks |-> ex.fallbacks,
                      pressed |-> pressed,
                      translate_button |-> TRUE, shows_translation |-> shown,
                      requests |-> IF st_button(pressed, "translate") THEN tr.requests ELSE <<>>,
                      download |-> download]]

(* ------------------ streamlit_gemini.py: the session -------------------- *)
GemInit ==
    /\ uploaded_file = NoFile
    /\ session_state = EmptySession
    /\ translated_from = <<>>
    /\ gem_run = IdleRun

\* the script runs on the current widget values with one button pressed
GemRerunWith(file, pressed, net) ==
    \E r \in {GeminiMain(file, session_state, translated_from, pressed, net)} :
        /\ script = GEMINI
        /\ uploaded_file' = file
        /\ session_state' = r.session_state
        /\ translated_from' = r.source
        /\ gem_run' = r.run
        /\ UNCHANGED <<script, appVars, peer>>

\* the user uploads a document (replacing the current one, if any)
Upload ==
    \E d \in Documents :
        /\ d # uploaded_file
        /\ GemRerunWith(d, "", Raises("OtherError"))

\* the same, over the documents the extractor alone is run on
UploadAny ==
    \E d \in ExtractDocuments :
        /\ d # uploaded_file
        /\ GemRerunWith(d, "", Raises("OtherError"))

\* the user removes the uploaded document
RemoveFile ==
    /\ uploaded_file # NoFile
    /\ GemRerunWith(NoFile, "", Raises("OtherError"))

\* the user presses "Translate Document"
PressTranslateDocument ==
    /\ gem_run.translate_button
    /\ \E net \in HttpOutcomes : GemRerunWith(uploaded_file, "translate", net)

\* the user presses "Download as DOCX"
PressDownloadDocx ==
    /\ gem_run.shows_translation
    /\ GemRerunWith(uploaded_file, "docx", Raises("OtherError"))

\* the user presses "Download as TXT"
PressDownloadTxt ==
    /\ gem_run.shows_translation
    /\ GemRerunWith(uploaded_file, "txt", Raises("OtherError"))

\* any other interaction (an expander, the text area): a rerun with no button
GemRerun ==
    /\ TRUE
    /\ GemRerunWith(uploaded_file, "", Raises("OtherError"))

GemNext ==
    \/ Upload
    \/ RemoveFile
    \/ PressTranslateDocument
    \/ PressDownloadDocx
    \/ PressDownloadTxt
    \/ GemRerun

\* the translations exported as DOCX: texts of letters and newlines
ExportTexts == SeqsUpTo({"a", "\n"}, MaxText)

\* the user presses "Translate Document" and the server answers with a text
TranslateAnswered ==
    /\ gem_run.translate_button
    /\ \E t \in ExportTexts :
          GemRerunWith(uploaded_file, "translate",
                       Response(200, Body("dict", {"translation"}, t, "")))

\* translations of many shapes and their export
DocxNext ==
    \/ Upload
    \/ TranslateAnswered
    \/ PressDownloadDocx
    \/ PressDownloadTxt

\* uploads alone, over the larger set of documents: the extractor and its caller
ExtractNext ==
    \/ UploadAny
    \/ RemoveFile
    \/ GemRerun


(* ---------------------- streamlit.py: the functions ---------------------- *)
\* API_URL as line 14 sets it, and another URL a user may type
INITIAL_API_URL == "https://e5e7-2401-4900-8843-57cc-a8fa-cf2c-9639-37a9.ngrok-free.app"
OtherUrl == "http://localhost:8000"
Urls == {INITIAL_API_URL, OtherUrl}

\* a module whose globals outlive the run: API_URL stays as the last run left it
ModuleApiUrlKept(held) == held

\* API_URL when main() starts: the script runs from its first line in every
\* run, so line 14 assigns the literal again, whatever a run before assigned
ModuleApiUrl(held) == INITIAL_API_URL

HealthTimeout == 5
TranslateTimeout == 300
TranslateFileTimeout == 600

\* the Hindi literals, transliterated
MsgEnterText == <<"hi:kripaya anuvad ke liye kuchh text darj karen.">>
ErrPrefix == "hi:anuvad mein truti: "
MsgNoConnect == <<ErrPrefix, "hi:API se connect nahin ho saka.">>
MsgConnectionFailed == <<ErrPrefix, "hi:anuvad server se connection viphal hua.">>
MsgTimedOut == <<ErrPrefix, "hi:anuvad anurodh ka samay samapt ho gaya.">>
MsgTryShorter == "hi:kripaya chhote input ke sath prayas karen."
UnknownError == "Unknown error"

\* Python's None and a value, as a sequence of at most one element
NoneValue == <<>>
Some(x) == <<x>>

\* the model_info object of a full answer
ModelInfo == "model_info"

\* how the health check ends: an exception, a 200 with a JSON object, a 200 with
\* JSON that is no object, a 200 that is not JSON, a status that is not 200
HealthOutcomes ==
    {Raises("OtherError"), Response(200, Body("dict", {}, <<>>, "")),
     Response(200, JsonList), Response(200, NotJson),
     Response(500, Body("dict", {}, <<>>, ""))}

\* check_api_health() on API_URL url: [available, data_is_dict, request]
check_api_health(url, h) ==
    LET req == Request("GET", url, "/health", <<>>, NoInputFile, Some(HealthTimeout))
        ok == h.kind = "response" /\ h.status = 200 /\ ~JsonRaises(h.body)
    IN  [available |-> ok,
         \* health_data is response.json() or the {"error": ...} dict
         data_is_dict |-> (ok => h.body.json = "dict"),
         request |-> req]

\* the exception the try block of a translate function ends with ("" for none):
\* the one the POST raises, or on a 200 answer the one response.json() or a
\* result[key] raises
TryBlockException(net, needed) ==
    IF net.kind = "exception" THEN net.exc
    ELSE IF net.status # 200 THEN ""
    ELSE IF JsonRaises(net.body) THEN "JSONDecodeError"
    ELSE IF net.body.json # "dict" THEN "TypeError"
    ELSE IF ~(needed \subseteq net.body.keys) THEN "KeyError"
    ELSE ""

\* the non-200 branch without the detail of the body
HttpErrorMessageNoDetail(body) == MsgNoConnect

\* the message of the non-200 branch: the detail of a JSON object, "Unknown
\* error" where it has none, and the bare except for .json() or .get() raising
HttpErrorMessage(body) ==
    IF JsonRaises(body) \/ body.json # "dict"
    THEN MsgNoConnect
    ELSE <<ErrPrefix, IF "detail" \in body.keys THEN body.detail ELSE UnknownError>>

\* the except clauses without the last, catch-all one
ExceptClausesNoCatchAll == <<"ConnectionError", "Timeout">>

\* the except clauses of translate_legal_text and translate_file, in order
ExceptClauses == <<"ConnectionError", "Timeout", "Exception">>

\* the first except clause an exception matches (0: none, it propagates)
Handler(cls) ==
    LET hits == {i \in 1..Len(ExceptClauses) : IsInstance(cls, ExceptClauses[i])}
    IN  IF hits = {} THEN 0 ELSE CHOOSE i \in hits : \A j \in hits : i <= j

\* the message an except clause returns; tail is what follows str(e) in the
\* last clause
HandlerMessage(cls, tail) ==
    LET clause == ExceptClauses[Handler(cls)]
    IN  CASE clause = "ConnectionError" -> MsgConnectionFailed
          [] clause = "Timeout"         -> MsgTimedOut
          [] OTHER                      -> <<ErrPrefix, ExcStr(cls)>> \o tail

\* the guard with "not input_text" in place of "not input_text.strip()"
EmptyInputUnstripped(text) == text = <<>>

\* the guard of translate_legal_text: not input_text.strip()
EmptyInput(text) == Strip(text) = <<>>

NoCall ==
    [fn |-> "", net |-> Raises(""), raised |-> FALSE, translation |-> <<>>,
     original_text |-> NoneValue, model_info |-> NoneValue, requests |-> <<>>]

\* translate_legal_text(input_text) on API_URL url when the POST ends as net:
\* what it returns (or that it raises) and the requests it sent
translate_legal_text(url, text, net) ==
    IF EmptyInput(text)
    THEN [NoCall EXCEPT !.fn = "text", !.translation = MsgEnterText]
    ELSE LET req == Request("POST", url, "/translate", text, NoInputFile,
                            Some(TranslateTimeout))
             exc == TryBlockException(net, {"translation", "model_info"})
             call == [NoCall EXCEPT !.fn = "text", !.net = net, !.requests = <<req>>]
         IN  IF exc = ""
             THEN IF net.status = 200
                  THEN [call EXCEPT !.translation = net.body.translation,
                                    !.model_info = Some(ModelInfo)]
                  ELSE [call EXCEPT !.translation = HttpErrorMessage(net.body)]
             ELSE IF Handler(exc) = 0
             THEN [call EXCEPT !.raised = TRUE]
             ELSE [call EXCEPT !.translation =
                                   HandlerMessage(exc, <<"\n", MsgTryShorter>>)]

\* translate_file(file) likewise
translate_file(url, file, net) ==
    LET req == Request("POST", url, "/translate/file", <<>>, file,
                       Some(TranslateFileTimeout))
        exc == TryBlockException(net, {"translation", "original_text", "model_info"})
        call == [NoCall EXCEPT !.fn = "file", !.net = net, !.requests = <<req>>]
    IN  IF exc = ""
        THEN IF net.status = 200
             THEN [call EXCEPT !.translation = net.body.translation,
                               !.original_text = Some(<<"o">>),
                               !.model_info = Some(ModelInfo)]
             ELSE [call EXCEPT !.translation = HttpErrorMessage(net.body)]
        ELSE IF Handler(exc) = 0
        THEN [call EXCEPT !.raised = TRUE]
        ELSE [call EXCEPT !.translation = HandlerMessage(exc, <<>>)]

(* ----------------------- streamlit.py: the script ------------------------ *)
\* texts typed into the text area
InputTexts == SeqsUpTo({"a", " "}, MaxInput)

\* files given to the uploader of the File Upload tab
NoAppFile == NoInputFile
AppFiles == {<<"f", ".pdf">>}

\* what one run of the script did and rendered
BlankRun ==
    [crashed |-> FALSE, rerun |-> FALSE, api_available |-> FALSE, pressed |-> "",
     requests |-> <<>>, rendered |-> FALSE, update_button |-> FALSE,
     file_button |-> FALSE, call |-> NoCall,
     text_result |-> NoneValue, file_result |-> NoneValue]

(* One run of the script, from line 1: on the widget values (the API URL      *)
(* field, the text area, the uploader), the button pressed ("", "update",    *)
(* "translate", "translate_file"), the way the health check ends (h) and the  *)
(* way a POST ends (net).  applied is the history of the URL last put into    *)
(* API_URL by "Update API URL"; each request is logged with the value it had  *)
(* when the request was sent.  held is the value API_URL was left with by    *)
(* the run before.  Gives [API_URL, applied, run].                            *)
AppMain(url_input, text, file, pressed, h, net, applied, held) ==
    LET url0 == ModuleApiUrl(held)
        Sent(reqs) == [i \in 1..Len(reqs) |-> [req |-> reqs[i], applied |-> applied]]
        health == check_api_health(url0, h)
        run0 == [BlankRun EXCEPT !.api_available = health.available,
                                 !.pressed = pressed,
                                 !.requests = Sent(<<health.request>>)]
    IN  IF health.available /\ ~health.data_is_dict
        THEN \* health_data.get raises: the run ends at line 143
             [API_URL |-> url0, applied |-> applied,
              run |-> [run0 EXCEPT !.crashed = TRUE]]
        ELSE IF url_input # url0 /\ st_button(pressed, "update")
        THEN \* API_URL = api_url_input; st.experimental_rerun() ends the run
             [API_URL |-> url_input, applied |-> url_input,
              run |-> [run0 EXCEPT !.rerun = TRUE]]
        ELSE
        LET run1 == [run0 EXCEPT !.update_button = (url_input # url0)]
            textCall == IF st_button(pressed, "translate") /\ text # <<>>
                        THEN translate_legal_text(url0, text, net)
                        ELSE NoCall
        IN  IF textCall.raised
            THEN [API_URL |-> url0, applied |-> applied,
                  run |-> [run1 EXCEPT !.crashed = TRUE, !.call = textCall,
                                       !.requests = @ \o Sent(textCall.requests)]]
            ELSE
            LET run2 == IF textCall.fn = "text"
                        THEN [run1 EXCEPT !.call = textCall,
                                          !.requests = @ \o Sent(textCall.requests),
                                          !.text_result = Some(textCall.translation)]
                        ELSE run1
                fileCall == IF file # NoAppFile /\ st_button(pressed, "translate_file")
                            THEN translate_file(url0, file, net)
                            ELSE NoCall
            IN  IF fileCall.raised
                THEN [API_URL |-> url0, applied |-> applied,
                      run |-> [run2 EXCEPT !.crashed = TRUE, !.call = fileCall,
                                           !.requests = @ \o Sent(fileCall.requests)]]
                ELSE
                LET run3 == IF fileCall.fn = "file"
                            THEN [run2 EXCEPT
                                    !.call = fileCall,
                                    !.requests = @ \o Sent(fileCall.requests),
                                    !.file_result =
                                        IF fileCall.translation # <<>>
                                           /\ fileCall.original_text # NoneValue
                                           /\ fileCall.original_text # Some(<<>>)
                                        THEN Some(fileCall.translation)
                                        ELSE NoneValue]
                            ELSE run2
                IN  [API_URL |-> url0, applied |-> applied,
                     run |-> [run3 EXCEPT !.rendered = TRUE,
                                          !.file_button = (file # NoAppFile)]]

(* ----------------------- streamlit.py: the session ----------------------- *)
\* the first run of a new session: no widget touched; it may find the API up or not
AppInit ==
    /\ api_url_input = INITIAL_API_URL
    /\ input_text = <<>>
    /\ app_uploaded_file = NoAppFile
    /\ applied_url = ""
    /\ \E h \in HealthOutcomes :
          \E r \in {AppMain(INITIAL_API_URL, <<>>, NoAppFile, "", h, Raises(""), "",
                             INITIAL_API_URL)} :
              API_URL = r.API_URL /\ app_run = r.run

\* the script runs on the given widget values with one button pressed
AppRunWith(url_input, text, file, pressed, net) ==
    \E h \in HealthOutcomes :
        \E r \in {AppMain(url_input, text, file, pressed, h, net, applied_url,
                           API_URL)} :
            /\ script = STREAMLIT
            /\ api_url_input' = url_input
            /\ input_text' = text
            /\ app_uploaded_file' = file
            /\ API_URL' = r.API_URL
            /\ applied_url' = r.applied
            /\ app_run' = r.run
            /\ UNCHANGED <<script, gemVars, peer>>

\* the widgets of the last run can be used: it got to its end
Usable == app_run.rendered /\ ~app_run.rerun

\* st.experimental_rerun(): the run that follows at once
RerunAfterUpdate ==
    /\ app_run.rerun
    /\ AppRunWith(api_url_input, input_text, app_uploaded_file, "", Raises(""))

\* the user types another URL into the "API URL" field
EditApiUrl ==
    /\ Usable
    /\ \E u \in Urls :
          /\ u # api_url_input
          /\ AppRunWith(u, input_text, app_uploaded_file, "", Raises(""))

\* the user presses "Update API URL"
PressUpdateApiUrl ==
    /\ Usable
    /\ app_run.update_button
    /\ AppRunWith(api_url_input, input_text, app_uploaded_file, "update", Raises(""))

\* the user changes the text of the text area
EditInputText ==
    /\ Usable
    /\ \E t \in InputTexts :
          /\ t # input_text
          /\ AppRunWith(api_url_input, t, app_uploaded_file, "", Raises(""))

\* the user presses "Translate" (enabled while the last run found the API up)
PressTranslate ==
    /\ Usable
    /\ app_run.api_available
    /\ \E net \in HttpOutcomes :
          AppRunWith(api_url_input, input_text, app_uploaded_file, "translate", net)

\* the user presses "Download Translation" under a shown text translation
PressDownloadTranslation ==
    /\ Usable
    /\ app_run.text_result # NoneValue
    /\ AppRunWith(api_url_input, input_text, app_uploaded_file, "", Raises(""))

\* the user gives the uploader a file, or removes it
AppUploadFile ==
    /\ Usable
    /\ app_run.api_available
    /\ \E f \in AppFiles \cup {NoAppFile} :
          /\ f # app_uploaded_file
          /\ AppRunWith(api_url_input, input_text, f, "", Raises(""))

\* the user presses "Translate File"
PressTranslateFile ==
    /\ Usable
    /\ app_run.file_button
    /\ app_run.api_available
    /\ \E net \in HttpOutcomes :
          AppRunWith(api_url_input, input_text, app_uploaded_file, "translate_file", net)

\* the user presses a download button under a shown file translation
PressDownloadFile ==
    /\ Usable
    /\ app_run.file_result # NoneValue
    /\ AppRunWith(api_url_input, input_text, app_uploaded_file, "", Raises(""))

\* any other interaction (a slider, the example selector left as it is), or a
\* reload after a run that raised
AppRerun ==
    /\ ~app_run.rerun
    /\ AppRunWith(api_url_input, input_text, app_uploaded_file, "", Raises(""))

AppNext ==
    \/ RerunAfterUpdate
    \/ EditApiUrl
    \/ PressUpdateApiUrl
    \/ EditInputText
    \/ PressTranslate
    \/ PressDownloadTranslation
    \/ AppUploadFile
    \/ PressTranslateFile
    \/ PressDownloadFile
    \/ AppRerun

(* ------------------- two sessions of one deployment --------------------- *)
(* Streamlit keeps the widget values and st.session_state per session and    *)
(* runs the script for a session on that session's values.  The variables    *)
(* above are those of the session that acts; peer holds those of the other.  *)
(* API_URL is a global of the script's module and belongs to no session.     *)

\* the widget values, st.session_state and last run of the session that acts
Session ==
    [uploaded_file |-> uploaded_file, session_state |-> session_state,
     translated_from |-> translated_from, gem_run |-> gem_run,
     api_url_input |-> api_url_input, input_text |-> input_text,
     app_uploaded_file |-> app_uploaded_file, applied_url |-> applied_url,
     app_run |-> app_run]

\* the next interaction comes from the other session
SwitchSession ==
    /\ peer' = Session
    /\ uploaded_file' = peer.uploaded_file
    /\ session_state' = peer.session_state
    /\ translated_from' = peer.translated_from
    /\ gem_run' = peer.gem_run
    /\ api_url_input' = peer.api_url_input
    /\ input_text' = peer.input_text
    /\ app_uploaded_file' = peer.app_uploaded_file
    /\ applied_url' = peer.applied_url
    /\ app_run' = peer.app_run
    /\ UNCHANGED <<script, API_URL>>

\* the documents and the answers of the server used with two sessions
SessionDocuments ==
    {Doc("t", ".txt", <<97>>, NoReader, NoReader, <<>>),
     Doc("d", ".docx", <<>>, NoReader, NoReader, <<(<<"b">>)>>)}

SessionOutcomes ==
    {Raises("ConnectionError"),
     Response(200, Body("dict", {"translation", "model_info"}, <<"h">>, ""))}

\* the user of the session uploads a document
SessionUpload ==
    \E d \in SessionDocuments :
        /\ d # uploaded_file
        /\ GemRerunWith(d, "", Raises("OtherError"))

\* the user of the session presses "Translate Document"
SessionTranslateDocument ==
    /\ gem_run.translate_button
    /\ \E net \in SessionOutcomes : GemRerunWith(uploaded_file, "translate", net)

\* the user of the session presses "Translate"
SessionTranslate ==
    /\ Usable
    /\ app_run.api_available
    /\ \E net \in SessionOutcomes :
          AppRunWith(api_url_input, input_text, app_uploaded_file, "translate", net)

SessionsNext ==
    \/ SwitchSession
    \/ SessionUpload
    \/ SessionTranslateDocument
    \/ PressDownloadDocx
    \/ PressDownloadTxt
    \/ EditApiUrl
    \/ PressUpdateApiUrl
    \/ RerunAfterUpdate
    \/ EditInputText
    \/ SessionTranslate
    \/ AppRerun

(* ------------------------------- claims -------------------------------- *)

\* the text has a character that is not white space
HasVisibleText(text) == \E i \in 1..Len(text) : ~IsSpace(text[i])

(* C1: a stored translation that was requested for a text is the translation  *)
(* of the extracted text of the document now uploaded (a new upload discards  *)
(* the previous translation).                                                 *)
C1_TranslationOfCurrentDocument ==
    (/\ "translated_text" \in session_state.keys
     /\ HasVisibleText(translated_from)
     /\ gem_run.has_file
     /\ ~gem_run.crashed)
        => translated_from = gem_run.extracted_text

(* C2: once a translation has been received and is shown, a later run of the  *)
(* script on the same widget values that gets to its end still shows a        *)
(* result.                                                                    *)
C2_ResultSurvivesRerun ==
    [][(/\ app_run.text_result # NoneValue
        /\ app_run.call.model_info # NoneValue
        /\ input_text' = input_text
        /\ app_uploaded_file' = app_uploaded_file
        /\ api_url_input' = api_url_input
        /\ app_run'.rendered)
          => app_run'.text_result # NoneValue]_vars

(* C3: once "Update API URL" has applied a URL, every request sent afterwards *)
(* goes to that URL.                                                          *)
C3_RequestsGoToAppliedUrl ==
    \A i \in 1..Len(app_run.requests) :
        app_run.requests[i].applied # ""
            => app_run.requests[i].req.base = app_run.requests[i].applied

(* C4: extracting a PDF never raises, whatever the two readers do: the run    *)
(* of the script on an uploaded PDF does not end in an exception.             *)
C4_PdfExtractionNeverRaises ==
    (gem_run.has_file /\ Suffix(uploaded_file.name) = ".pdf") => ~gem_run.crashed

\* the output of the fallback reader alone: its page texts, None as ""
FallbackOutput(file) == ReadPages(file.pypdf.pages, <<>>, TRUE).text

(* C5: where the primary reader raises, the fallback runs exactly once and    *)
(* the text returned is exactly the fallback's output.                        *)
C5_FallbackOutputReturned ==
    (/\ gem_run.has_file
     /\ Suffix(uploaded_file.name) = ".pdf"
     /\ ~FitzReadsAll(uploaded_file.fitz)
     /\ ~gem_run.crashed)
        => /\ gem_run.fallbacks = 1
           /\ gem_run.extracted_text = FallbackOutput(uploaded_file)

(* C6: an uploaded .txt always gets to Extracted: bytes that are not UTF-8    *)
(* give the empty text without ending the run, valid bytes their decoding.    *)
C6_TxtUploadReachesExtracted ==
    (gem_run.has_file /\ Suffix(uploaded_file.name) = ".txt")
        => /\ ~gem_run.crashed
           /\ gem_run.extracted_text = Utf8Decode(uploaded_file.bytes).text

(* C7: an empty or white-space-only text gets the canned placeholder and no   *)
(* network call, so every POST to /translate carries a text with at least     *)
(* one character that is not white space.                                     *)
C7_NoRequestForBlankText ==
    /\ \A i \in 1..Len(gem_run.requests) : HasVisibleText(gem_run.requests[i].text)
    /\ \A i \in 1..Len(app_run.requests) :
          app_run.requests[i].req.path = "/translate"
              => HasVisibleText(app_run.requests[i].req.text)
    /\ (gem_run.pressed = "translate" /\ ~HasVisibleText(gem_run.extracted_text))
          => (session_state.translated_text = MsgNoText /\ gem_run.requests = <<>>)
    /\ (app_run.call.fn = "text" /\ ~HasVisibleText(input_text))
          => (/\ app_run.call.translation = MsgEnterText
              /\ app_run.call.model_info = NoneValue
              /\ app_run.call.requests = <<>>)

\* "Translate" was pressed on a text of blanks: the placeholder is shown
C7_Witness ==
    /\ app_run.call.fn = "text"
    /\ input_text = <<" ">>
    /\ app_run.text_result = Some(MsgEnterText)
    /\ Len(app_run.requests) = 1

\* the keys a full answer to a translate function has
NeededKeys(fn) ==
    IF fn = "file" THEN {"translation", "original_text", "model_info"}
    ELSE {"translation", "model_info"}

\* the call sent a request and it failed: an exception, a status that is not
\* 200, or a 200 whose body is not a JSON object with the needed keys
CallFailed(call) ==
    /\ call.requests # <<>>
    /\ \/ call.net.kind = "exception"
       \/ call.net.status # 200
       \/ call.net.body.json # "dict"
       \/ ~(NeededKeys(call.fn) \subseteq call.net.body.keys)

(* C8: on every failure translateText and translateFile return a Hindi        *)
(* message and None metadata without raising, and the run gets to its end.    *)
C8_FailureGivesMessage ==
    CallFailed(app_run.call)
        => /\ ~app_run.call.raised
           /\ ~app_run.crashed
           /\ app_run.rendered
           /\ app_run.call.translation # <<>>
           /\ app_run.call.translation[1] = ErrPrefix
           /\ app_run.call.model_info = NoneValue
           /\ app_run.call.original_text = NoneValue

\* a 200 answer without its "translation" key: the run ends with the message
C8_Witness ==
    /\ app_run.call.fn = "text"
    /\ app_run.call.net = Response(200, Body("dict", {"model_info", "original_text"}, <<>>, ""))
    /\ app_run.text_result = Some(<<ErrPrefix, ExcStr("KeyError"), "\n", MsgTryShorter>>)
    /\ app_run.rendered

(* C9: a translateText call that ends in an exception of the Timeout class    *)
(* returns the timeout message.                                               *)
C9_TimeoutGivesTimeoutMessage ==
    (/\ app_run.call.fn = "text"
     /\ app_run.call.net.kind = "exception"
     /\ IsInstance(app_run.call.net.exc, "Timeout"))
        => app_run.call.translation = MsgTimedOut

\* the message has d as one of its pieces
Contains(msg, d) == \E i \in 1..Len(msg) : msg[i] = d

(* C10: a non-200 answer to translateText with a JSON "detail" d gives a      *)
(* message containing d; without one (or not JSON) a generic marker; model    *)
(* metadata is None either way.                                               *)
C10_DetailInMessage ==
    (/\ app_run.call.fn = "text"
     /\ app_run.call.net.kind = "response"
     /\ app_run.call.net.status # 200)
        => /\ app_run.call.model_info = NoneValue
           /\ app_run.call.translation[1] = ErrPrefix
           /\ IF app_run.call.net.body.json = "dict"
                 /\ "detail" \in app_run.call.net.body.keys
              THEN Contains(app_run.call.translation, app_run.call.net.body.detail)
              ELSE /\ app_run.call.translation \in {<<ErrPrefix, UnknownError>>, MsgNoConnect}
                   /\ \A d \in Details : ~Contains(app_run.call.translation, d)

\* a 500 answer {"detail": "overloaded"}: the message shown contains it
C10_Witness ==
    /\ app_run.call.fn = "text"
    /\ app_run.call.net = Response(500, Body("dict", {"detail"}, <<>>, "overloaded"))
    /\ app_run.text_result = Some(<<ErrPrefix, "overloaded">>)

\* the POST requests of a run of streamlit.py (the GET is the health check)
AppPosts(run) == {i \in 1..Len(run.requests) : run.requests[i].req.method = "POST"}

(* C11: there is no automatic retry: a run sends at most one translation      *)
(* request, and a run that sends one was started by a press of a translate    *)
(* button; a run started by any other interaction (after a failed             *)
(* translation too) sends none.                                               *)
C11_NoAutomaticRetry ==
    /\ Len(gem_run.requests) <= 1
    /\ gem_run.requests # <<>> => gem_run.pressed = "translate"
    /\ Cardinality(AppPosts(app_run)) <= 1
    /\ AppPosts(app_run) # {} => app_run.pressed \in {"translate", "translate_file"}

\* a failed translation is stored, and the run started by "Download as TXT"
\* that follows sent no request
C11_Witness ==
    /\ "translated_text" \in session_state.keys
    /\ session_state.translated_text = <<"Translation API error: ", ExcStr("ConnectionError")>>
    /\ gem_run.pressed = "txt"
    /\ gem_run.download.kind = "txt"
    /\ gem_run.requests = <<>>

\* the call returns although the server never answers: requests gives up after
\* the timeout it was given and waits without end where it was given none
ReturnsUnanswered(req) == req.timeout # NoTimeout

\* the timeout the contract gives each remote operation, in seconds
ContractTimeout(path) ==
    CASE path = "/health"         -> 5
      [] path = "/translate"      -> 300
      [] path = "/translate/file" -> 600
      [] OTHER                    -> 0

(* C12: every remote operation is sent with its explicit timeout (health      *)
(* check 5 s, text translation 300 s, file translation 600 s), so each call   *)
(* returns even when the server never answers.                                *)
C12_EveryCallHasTimeout ==
    /\ \A i \in 1..Len(gem_run.requests) :
          /\ ReturnsUnanswered(gem_run.requests[i])
          /\ gem_run.requests[i].timeout = Some(ContractTimeout(gem_run.requests[i].path))
    /\ \A i \in 1..Len(app_run.requests) :
          /\ ReturnsUnanswered(app_run.requests[i].req)
          /\ app_run.requests[i].req.timeout
                 = Some(ContractTimeout(app_run.requests[i].req.path))

(* C13: the export is idempotent: a press of "Download as DOCX" or "Download  *)
(* as TXT" leaves st.session_state, the uploaded file and the history of the  *)
(* translation as they were and sends no request; the content exported is    *)
(* made from the stored translation, so a repetition exports the same.        *)
C13_ExportIdempotent ==
    [][(PressDownloadDocx \/ PressDownloadTxt)
          => /\ session_state' = session_state
             /\ uploaded_file' = uploaded_file
             /\ translated_from' = translated_from
             /\ gem_run'.requests = <<>>
             /\ ~gem_run'.crashed
             /\ gem_run'.download.kind = gem_run'.pressed
             /\ gem_run'.download.name[1] = Stem(session_state.file_name)
             /\ gem_run'.pressed = "txt"
                   => gem_run'.download.text = session_state.translated_text
             /\ gem_run'.pressed = "docx"
                   => gem_run'.download.paragraphs = SplitBlank(session_state.translated_text)
             /\ gem_run.pressed = gem_run'.pressed
                   => gem_run'.download = gem_run.download]_vars

\* a translation of two paragraphs was exported as DOCX
C13_Witness ==
    /\ gem_run.pressed = "docx"
    /\ session_state.translated_text = <<"h", "\n", "\n", "i">>
    /\ gem_run.download.kind = "docx"
    /\ gem_run.download.paragraphs = <<(<<"h">>), (<<"i">>)>>
    /\ gem_run.requests = <<>>

\* the base URLs the requests of a run went to are the script's own URL or the
\* URL the session itself had applied when the request was sent
OwnBaseUrls(run) ==
    \A i \in 1..Len(run.requests) :
        run.requests[i].req.base \in {INITIAL_API_URL, run.requests[i].applied}

(* C14: two sessions are independent: an action of one session changes       *)
(* nothing the other has stored or sees (its translation, file name, last     *)
(* run, widget values), and the base URL a session's run uses never comes     *)
(* from an "Update API URL" of the other session.                             *)
C14_SessionsIndependent ==
    [][/\ ~SwitchSession => peer' = peer
       /\ SwitchSession => (Session' = peer /\ peer' = Session)
       /\ OwnBaseUrls(app_run')
       /\ OwnBaseUrls(peer'.app_run)
       /\ \A i \in 1..Len(gem_run'.requests) :
             gem_run'.requests[i].base = TRANSLATION_API_BASE]_vars

\* one session pressed "Update API URL" (its rerun is still to come) and the
\* other session's script has run since: its requests went to the script's URL
C14_Witness ==
    /\ peer.applied_url = OtherUrl
    /\ peer.app_run.rerun
    /\ applied_url = ""
    /\ API_URL = INITIAL_API_URL
    /\ app_run.rendered
    /\ app_run.call.requests # <<>>
    /\ \A i \in 1..Len(app_run.requests) : app_run.requests[i].req.base = INITIAL_API_URL

\* the blank-line boundaries of a text from position i on: the pairs of
\* consecutive newlines, counted from the left without overlap
RECURSIVE BlankLineBoundaries(_, _)
BlankLineBoundaries(s, i) ==
    IF i + 1 > Len(s) THEN 0
    ELSE IF s[i] = "\n" /\ s[i + 1] = "\n" THEN 1 + BlankLineBoundaries(s, i + 2)
    ELSE BlankLineBoundaries(s, i + 1)

\* the paragraphs put together again with a blank-line boundary between them
RECURSIVE JoinBlank(_)
JoinBlank(ps) ==
    IF Len(ps) = 0 THEN <<>>
    ELSE IF Len(ps) = 1 THEN ps[1]
    ELSE ps[1] \o <<"\n", "\n">> \o JoinBlank(Tail(ps))

(* C15: the DOCX written for a text has one paragraph per segment between     *)
(* blank-line boundaries, in the order of the text: as many paragraphs as     *)
(* boundaries plus one (one for the empty text), none holding a boundary,     *)
(* and the paragraphs joined by boundaries give the text back.                *)
C15_ParagraphPerSegment ==
    gem_run.download.kind = "docx"
        => /\ Len(gem_run.download.paragraphs)
                 = BlankLineBoundaries(session_state.translated_text, 1) + 1
           /\ JoinBlank(gem_run.download.paragraphs) = session_state.translated_text
           /\ \A i \in 1..Len(gem_run.download.paragraphs) :
                 BlankLineBoundaries(gem_run.download.paragraphs[i], 1) = 0

\* a text with a run of three newlines was exported: two paragraphs, the
\* second holding the third newline
C15_Witness ==
    /\ gem_run.download.kind = "docx"
    /\ session_state.translated_text = <<"a", "\n", "\n", "\n">>
    /\ gem_run.download.paragraphs = <<(<<"a">>), (<<"\n">>)>>

(* C16: translation is gated by the health check of the same run: a run      *)
(* whose check_api_health reports the API unavailable sends no POST to        *)
(* /translate or /translate/file.                                             *)
C16_NoPostWhenUnavailable ==
    ~app_run.api_available => AppPosts(app_run) = {}

(* --------------------------- specifications ---------------------------- *)
\* the session of the other script, not opened
AppClosed ==
    /\ API_URL = INITIAL_API_URL
    /\ api_url_input = INITIAL_API_URL
    /\ input_text = <<>>
    /\ app_uploaded_file = NoAppFile
    /\ applied_url = ""
    /\ app_run = BlankRun

GemClosed == GemInit

\* the second session before its first run
NoPeer ==
    [uploaded_file |-> NoFile, session_state |-> EmptySession,
     translated_from |-> <<>>, gem_run |-> IdleRun,
     api_url_input |-> INITIAL_API_URL, input_text |-> <<>>,
     app_uploaded_file |-> NoAppFile, applied_url |-> "", app_run |-> BlankRun]

GeminiInit == script = GEMINI /\ GemInit /\ AppClosed /\ peer = NoPeer
StreamlitInit == script = STREAMLIT /\ AppInit /\ GemClosed /\ peer = NoPeer

\* either script
Init == GeminiInit \/ StreamlitInit

Next ==
    \/ Upload
    \/ RemoveFile
    \/ PressTranslateDocument
    \/ PressDownloadDocx
    \/ PressDownloadTxt
    \/ GemRerun
    \/ RerunAfterUpdate
    \/ EditApiUrl
    \/ PressUpdateApiUrl
    \/ EditInputText
    \/ PressTranslate
    \/ PressDownloadTranslation
    \/ AppUploadFile
    \/ PressTranslateFile
    \/ PressDownloadFile
    \/ AppRerun

\* a session of streamlit_gemini.py
SpecGemini == GeminiInit /\ [][GemNext]_vars

\* uploads alone, over the larger set of documents
SpecExtract == GeminiInit /\ [][ExtractNext]_vars

\* a session of streamlit.py
SpecApp == StreamlitInit /\ [][AppNext]_vars

\* the export of translations of many shapes
SpecDocx == GeminiInit /\ [][DocxNext]_vars

\* two sessions of one deployment of either script, interleaved
SpecSessions == Init /\ [][SessionsNext]_vars

\* a session of either script
Spec == Init /\ [][Next]_vars

====
